---- MODULE Spec2Model ----
(***************************************************************************)
(* URL shortener with click analytics (src/app/main.py).                   *)
(*                                                                         *)
(* The model follows the three request handlers of the service             *)
(* (create_short_url, redirect_short_code, get_stats), each running on its *)
(* own request worker with its own SQLAlchemy session, against the two     *)
(* tables url_mappings and clicks of one SQLite database.  A step of a     *)
(* handler is the code up to and including its next storage operation      *)
(* (commit, rollback, query, count); workers interleave between the steps. *)
(*                                                                         *)
(* Definitions named after another with a suffix (UniqueViolationNever,    *)
(* TryInsertLeaky, ...) are faulty variants of the definition that follows *)
(* them; they are not part of Spec and serve to show that a property       *)
(* depends on the code it is about.                                        *)
(***************************************************************************)
EXTENDS Integers, Sequences, FiniteSets, Bags, TLC

(***************************************************************************)
(* Bounds of the model                                                     *)
(***************************************************************************)
NumWorkers == 2      \* request workers that may run concurrently
MaxRequests == 3     \* requests received in one behaviour
NumSeeds == 1        \* different outcomes of the random source

Workers == 1..NumWorkers

(***************************************************************************)
(* Program constants                                                       *)
(***************************************************************************)
\* BASE62_CHARS = string.digits + string.ascii_letters
BASE62_CHARS ==
    << "0","1","2","3","4","5","6","7","8","9",
       "a","b","c","d","e","f","g","h","i","j","k","l","m",
       "n","o","p","q","r","s","t","u","v","w","x","y","z",
       "A","B","C","D","E","F","G","H","I","J","K","L","M",
       "N","O","P","Q","R","S","T","U","V","W","X","Y","Z" >>

\* def generate_short_code(length: int = 7)
DefaultLength == 7

\* for attempt in range(5)
MaxAttemptsOneMore == 5 + 1
MaxAttempts == 5

\* user_agent = Column(String(255))
UserAgentColumnWidth == 255

(***************************************************************************)
(* Inputs                                                                  *)
(***************************************************************************)
RECURSIVE Repeat(_, _)
Repeat(s, n) == IF n = 0 THEN "" ELSE Repeat(s, n - 1) \o s

\* validated URLs a client may submit (payload.original_url is an HttpUrl,
\* a parsed URL; str() serialises it back to text)
Payloads == { [scheme |-> "https", host |-> "example.com", path |-> "/a"],
              [scheme |-> "https", host |-> "example.com", path |-> "/b"] }

\* what random.choice draws for the characters of one code: a sequence of
\* positions in BASE62_CHARS, one per character
RandomDraws(length) ==
    { [i \in 1..length |-> ((seed * 13 + i * 7) % Len(BASE62_CHARS)) + 1] :
        seed \in 1..NumSeeds }

\* a random source that can also draw the first character of BASE62_CHARS
\* for every position
MoreRandomDraws(length) ==
    RandomDraws(length) \cup { [i \in 1..length |-> 1] }

\* the request objects a redirect may arrive with: request.client is None
\* or carries a host, the User-Agent header is absent or present.  Headers
\* are a set of <<name, value>> pairs.
NoClient == [present |-> FALSE, host |-> ""]
SomeClient == [present |-> TRUE, host |-> "10.0.0.1"]
LongUserAgent == Repeat("x", UserAgentColumnWidth + 1)
Requests ==
    { [client |-> NoClient, headers |-> {}],
      [client |-> SomeClient, headers |-> {<<"user-agent", LongUserAgent>>}] }
NoRequest == [client |-> NoClient, headers |-> {}]

(***************************************************************************)
(* Pure functions of the program                                           *)
(***************************************************************************)
\* "".join(random.choice(BASE62_CHARS) for _ in range(length)), where
\* draws[i] is the position that the i-th random.choice picks
generate_short_code_short(length, draws) ==
    [i \in 1..(length - 1) |-> BASE62_CHARS[draws[i]]]
generate_short_code(length, draws) ==
    [i \in 1..length |-> BASE62_CHARS[draws[i]]]

\* str(payload.original_url)
StrOfUrlNoPath(u) == u.scheme \o "://" \o u.host \o "/"
StrOfUrl(u) == u.scheme \o "://" \o u.host \o u.path

\* request.client.host if request.client else "unknown"
ClientHost(request) ==
    IF request.client.present THEN request.client.host ELSE "unknown"

\* request.headers.get("user-agent", "unknown")
HeaderGet(request, name, default) ==
    IF \E h \in request.headers : h[1] = name
    THEN (CHOOSE h \in request.headers : h[1] = name)[2]
    ELSE default

\* the short codes a client may ask for: those the generator can produce
\* within the bounds, issued or not, and one that the bounded random
\* source never draws
GenerableCodes ==
    { generate_short_code(DefaultLength, d) : d \in RandomDraws(DefaultLength) }
PathCodes == GenerableCodes \cup { [i \in 1..DefaultLength |-> "0"] }

(***************************************************************************)
(* State                                                                   *)
(***************************************************************************)
VARIABLES
    mappings,   \* table url_mappings: set of rows
    clicks,     \* table clicks: set of rows
    nreq,       \* requests received so far
    pc,         \* pc[w]: where worker w stands in its handler
    req,        \* req[w]: the request worker w is handling
    local,      \* local[w]: the handler's local variables
    session,    \* session[w]: the SQLAlchemy session get_db gave the handler
    resp,       \* resp[w]: the response of w's handler, once it has one
    commits,    \* history: db.commit() calls of w's current request
    used,       \* history: commits of w's current request whose candidate
                \*          code was in url_mappings already
    added,      \* history: url_mappings rows w's current request inserted
    returned,   \* history: bag of <<short_code returned, payload submitted>>,
                \*          one copy per create_short_url that returned
    redirected  \* history: redirected[c] is the number of 302 responses
                \*          that redirects of short_code c have produced

vars == << mappings, clicks, nreq, pc, req, local, session, resp,
           commits, used, added, returned, redirected >>

NoRow == [id |-> 0, original_url |-> "", short_code |-> << >>, created_at |-> 0]
NoCode == << >>
NoUrl == [scheme |-> "", host |-> "", path |-> ""]
NoResp == [status |-> 0, short_code |-> NoCode, original_url |-> "",
           total_clicks |-> 0, created_at |-> 0, location |-> ""]
NoLocal == [original_url |-> "", attempt |-> 0, code |-> NoCode, url |-> NoRow]
ClosedSession == [open |-> FALSE, new |-> << >>]

NoReq == [kind |-> "none", payload |-> NoUrl, short_code |-> NoCode,
          request |-> NoRequest]

\* datetime.utcnow(): the clock starts at 1 and counts the rows written
Now == 1 + Cardinality(mappings) + Cardinality(clicks)

(***************************************************************************)
(* Storage: the two tables and the statements the handlers issue           *)
(***************************************************************************)
Max(S) == CHOOSE x \in S : \A y \in S : y <= x

\* id = Column(Integer, primary_key=True): SQLite gives a new row the
\* largest id in the table plus one
NextId(table) == IF table = {} THEN 1 ELSE Max({ r.id : r \in table }) + 1

\* short_code = Column(String(10), unique=True): the INSERT of a row whose
\* short_code is already in the table raises IntegrityError
UniqueViolationNever(table, short_code) == FALSE
UniqueViolation(table, short_code) ==
    \E m \in table : m.short_code = short_code

\* db.query(UrlMapping).filter(UrlMapping.short_code == short_code).first()
QueryFirstAny(table, short_code) ==
    IF table = {} THEN NoRow
    ELSE CHOOSE m \in table : \A o \in table : m.id <= o.id
QueryFirst(table, short_code) ==
    LET found == { m \in table : m.short_code = short_code }
    IN  IF found = {} THEN NoRow
        ELSE CHOOSE m \in found : \A o \in found : m.id <= o.id

\* the SELECT by primary key that db.refresh(url), or the first attribute
\* access on an object expired by commit, issues
LoadById(table, id) ==
    IF \E m \in table : m.id = id
    THEN CHOOSE m \in table : m.id = id
    ELSE NoRow

\* db.query(Click).filter(Click.url_id == url.id).count()
CountClicksOthers(table, url_id) ==
    Cardinality({ k \in table : k.url_id # url_id })
CountClicks(table, url_id) ==
    Cardinality({ k \in table : k.url_id = url_id })

\* the row INSERTed for a pending UrlMapping: id from the table, created_at
\* from the column default datetime.utcnow
UrlMappingRow(table, obj, time) ==
    [id |-> NextId(table), original_url |-> obj.original_url,
     short_code |-> obj.short_code, created_at |-> time]

\* the row INSERTed for a pending Click; SQLite stores a string as it is,
\* whatever width String(n) declares
ClickRowOwnId(table, obj, time) ==
    [id |-> NextId(table), url_id |-> NextId(table), clicked_at |-> time,
     ip_address |-> obj.ip_address, user_agent |-> obj.user_agent]
ClickRow(table, obj, time) ==
    [id |-> NextId(table), url_id |-> obj.url_id, clicked_at |-> time,
     ip_address |-> obj.ip_address, user_agent |-> obj.user_agent]

(***************************************************************************)
(* Initial state: empty tables (Base.metadata.create_all), idle workers    *)
(***************************************************************************)
Init ==
    /\ mappings = {}
    /\ clicks = {}
    /\ nreq = 0
    /\ pc = [w \in Workers |-> "idle"]
    /\ req = [w \in Workers |-> NoReq]
    /\ local = [w \in Workers |-> NoLocal]
    /\ session = [w \in Workers |-> ClosedSession]
    /\ resp = [w \in Workers |-> NoResp]
    /\ commits = [w \in Workers |-> 0]
    /\ used = [w \in Workers |-> 0]
    /\ added = [w \in Workers |-> {}]
    /\ returned = EmptyBag
    /\ redirected = [c \in PathCodes |-> 0]

\* a request arrives and the first idle worker takes it: get_db() opens
\* its session
Receive(w, r, first) ==
    /\ pc[w] = "idle"
    /\ \A v \in Workers : v < w => pc[v] # "idle"
    /\ nreq < MaxRequests
    /\ nreq' = nreq + 1
    /\ req' = [req EXCEPT ![w] = r]
    /\ session' = [session EXCEPT ![w] = [open |-> TRUE, new |-> << >>]]
    /\ pc' = [pc EXCEPT ![w] = first]
    /\ UNCHANGED << resp, commits, used, added >>

CloseOnSuccessOnly(w) ==
    /\ pc[w] = "close"
    /\ session' = IF resp[w].status \in {200, 302}
                    THEN [session EXCEPT ![w] = ClosedSession]
                    ELSE session
    /\ local' = [local EXCEPT ![w] = NoLocal]
    /\ req' = [req EXCEPT ![w] = NoReq]
    /\ resp' = [resp EXCEPT ![w] = NoResp]
    /\ commits' = [commits EXCEPT ![w] = 0]
    /\ used' = [used EXCEPT ![w] = 0]
    /\ added' = [added EXCEPT ![w] = {}]
    /\ pc' = [pc EXCEPT ![w] = "idle"]
    /\ UNCHANGED << mappings, clicks, nreq, returned, redirected >>

\* get_db(): finally db.close(), on every way out of the handler; the
\* response leaves for the client and the worker is free again
Close(w) ==
    /\ pc[w] = "close"
    /\ session' = [session EXCEPT ![w] = ClosedSession]
    /\ local' = [local EXCEPT ![w] = NoLocal]
    /\ req' = [req EXCEPT ![w] = NoReq]
    /\ resp' = [resp EXCEPT ![w] = NoResp]
    /\ commits' = [commits EXCEPT ![w] = 0]
    /\ used' = [used EXCEPT ![w] = 0]
    /\ added' = [added EXCEPT ![w] = {}]
    /\ pc' = [pc EXCEPT ![w] = "idle"]
    /\ UNCHANGED << mappings, clicks, nreq, returned, redirected >>

(***************************************************************************)
(* POST /api/shorten: create_short_url                                     *)
(***************************************************************************)
\* original_url = str(payload.original_url), then the retry loop is entered
ReceiveShorten(w) ==
    \E payload \in Payloads :
        /\ Receive(w, [NoReq EXCEPT !.kind = "shorten",
                                    !.payload = payload], "s_loop")
        /\ local' = [local EXCEPT ![w] =
                        [NoLocal EXCEPT !.original_url = StrOfUrl(payload)]]
        /\ UNCHANGED << mappings, clicks, returned, redirected >>

\* one pass of the loop, lines 110 to 114: a fresh candidate code, a pending
\* UrlMapping added to the session, and db.commit(): the row is INSERTed
\* and committed, or the INSERT raises IntegrityError and nothing is written
TryInsertUpsert(w) ==
    /\ pc[w] = "s_loop"
    /\ local[w].attempt < MaxAttempts
    /\ \E draws \in RandomDraws(DefaultLength) :
         LET code == generate_short_code(DefaultLength, draws)
             url == [table |-> "url_mappings",
                     original_url |-> local[w].original_url,
                     short_code |-> code]
             row == UrlMappingRow(mappings, url, Now)
         IN  /\ mappings' =
                  { m \in mappings : m.short_code # code } \cup {row}
             /\ local' = [local EXCEPT ![w].code = code, ![w].url = row]
             /\ session' = session
             /\ pc' = [pc EXCEPT ![w] = "s_return"]
             /\ used' = [used EXCEPT ![w] =
                          IF code \in { m.short_code : m \in mappings }
                          THEN @ + 1 ELSE @]
    /\ commits' = [commits EXCEPT ![w] = @ + 1]
    /\ added' = [added EXCEPT ![w] = @ \cup (mappings' \ mappings)]
    /\ UNCHANGED << clicks, nreq, req, resp, returned, redirected >>

TryInsertLeaky(w) ==
    /\ pc[w] = "s_loop"
    /\ local[w].attempt < MaxAttempts
    /\ \E draws \in RandomDraws(DefaultLength) :
         LET code == generate_short_code(DefaultLength, draws)
             url == [table |-> "url_mappings",
                     original_url |-> local[w].original_url,
                     short_code |-> code]
             row == UrlMappingRow(mappings, url, Now)
         IN  /\ IF UniqueViolation(mappings, code)
                THEN /\ mappings' = mappings \cup {row}
                     /\ local' = [local EXCEPT ![w].code = code]
                     /\ session' = [session EXCEPT ![w].new = Append(@, url)]
                     /\ pc' = [pc EXCEPT ![w] = "s_except"]
                ELSE /\ mappings' = mappings \cup {row}
                     /\ local' = [local EXCEPT ![w].code = code,
                                               ![w].url = row]
                     /\ session' = session
                     /\ pc' = [pc EXCEPT ![w] = "s_return"]
             /\ used' = [used EXCEPT ![w] =
                          IF code \in { m.short_code : m \in mappings }
                          THEN @ + 1 ELSE @]
    /\ commits' = [commits EXCEPT ![w] = @ + 1]
    /\ added' = [added EXCEPT ![w] = @ \cup (mappings' \ mappings)]
    /\ UNCHANGED << clicks, nreq, req, resp, returned, redirected >>

TryInsertFromDedup(w, source) ==
    /\ pc[w] = "s_loop"
    /\ local[w].attempt < MaxAttempts
    /\ \E draws \in source :
         LET code == generate_short_code(DefaultLength, draws)
             url == [table |-> "url_mappings",
                     original_url |-> local[w].original_url,
                     short_code |-> code]
             row == UrlMappingRow(mappings, url, Now)
         IN  /\ IF \E m \in mappings : m.original_url = url.original_url
                THEN /\ mappings' = mappings
                     /\ local' = [local EXCEPT ![w].url =
                            CHOOSE m \in mappings :
                                m.original_url = url.original_url]
                     /\ session' = session
                     /\ pc' = [pc EXCEPT ![w] = "s_return"]
                ELSE IF UniqueViolation(mappings, code)
                THEN /\ mappings' = mappings
                     /\ local' = [local EXCEPT ![w].code = code]
                     /\ session' = [session EXCEPT ![w].new = Append(@, url)]
                     /\ pc' = [pc EXCEPT ![w] = "s_except"]
                ELSE /\ mappings' = mappings \cup {row}
                     /\ local' = [local EXCEPT ![w].code = code,
                                               ![w].url = row]
                     /\ session' = session
                     /\ pc' = [pc EXCEPT ![w] = "s_return"]
             /\ used' = [used EXCEPT ![w] =
                          IF code \in { m.short_code : m \in mappings }
                          THEN @ + 1 ELSE @]
    /\ commits' = [commits EXCEPT ![w] = @ + 1]
    /\ added' = [added EXCEPT ![w] = @ \cup (mappings' \ mappings)]
    /\ UNCHANGED << clicks, nreq, req, resp, returned, redirected >>

TryInsertFrom(w, source) ==
    /\ pc[w] = "s_loop"
    /\ local[w].attempt < MaxAttempts
    /\ \E draws \in source :
         LET code == generate_short_code(DefaultLength, draws)
             url == [table |-> "url_mappings",
                     original_url |-> local[w].original_url,
                     short_code |-> code]
             row == UrlMappingRow(mappings, url, Now)
         IN  /\ IF UniqueViolation(mappings, code)
                THEN /\ mappings' = mappings
                     /\ local' = [local EXCEPT ![w].code = code]
                     /\ session' = [session EXCEPT ![w].new = Append(@, url)]
                     /\ pc' = [pc EXCEPT ![w] = "s_except"]
                ELSE /\ mappings' = mappings \cup {row}
                     /\ local' = [local EXCEPT ![w].code = code,
                                               ![w].url = row]
                     /\ session' = session
                     /\ pc' = [pc EXCEPT ![w] = "s_return"]
             /\ used' = [used EXCEPT ![w] =
                          IF code \in { m.short_code : m \in mappings }
                          THEN @ + 1 ELSE @]
    /\ commits' = [commits EXCEPT ![w] = @ + 1]
    /\ added' = [added EXCEPT ![w] = @ \cup (mappings' \ mappings)]
    /\ UNCHANGED << clicks, nreq, req, resp, returned, redirected >>

\* the pass of the loop with the codes of the bounded random source
TryInsert(w) ==
    TryInsertFrom(w, RandomDraws(DefaultLength))

\* except IntegrityError: db.rollback(); continue (code is assigned anew
\* before it is read again)
RollbackUrlSkipped(w) ==
    /\ pc[w] = "s_except"
    /\ session' = session
    /\ local' = [local EXCEPT ![w].attempt = @ + 1, ![w].code = NoCode]
    /\ pc' = [pc EXCEPT ![w] = "s_loop"]
    /\ UNCHANGED << mappings, clicks, nreq, req, resp, commits, used, added,
                    returned, redirected >>

RollbackUrl(w) ==
    /\ pc[w] = "s_except"
    /\ session' = [session EXCEPT ![w].new = << >>]
    /\ local' = [local EXCEPT ![w].attempt = @ + 1, ![w].code = NoCode]
    /\ pc' = [pc EXCEPT ![w] = "s_loop"]
    /\ UNCHANGED << mappings, clicks, nreq, req, resp, commits, used, added,
                    returned, redirected >>

\* db.refresh(url); return ShortenResponse(url.short_code, url.original_url)
ReturnShorten(w) ==
    /\ pc[w] = "s_return"
    /\ LET url == LoadById(mappings, local[w].url.id)
       IN  /\ resp' = [resp EXCEPT ![w] =
                        [NoResp EXCEPT !.status = 200,
                                       !.short_code = url.short_code,
                                       !.original_url = url.original_url]]
           /\ returned' = returned (+)
                SetToBag({ << url.short_code, req[w].payload >> })
    /\ pc' = [pc EXCEPT ![w] = "close"]
    /\ UNCHANGED << mappings, clicks, nreq, req, local, session, commits,
                    used, added, redirected >>

\* the loop ran out: raise HTTPException(status_code=500)
RaiseExhaustedLate(w) ==
    /\ pc[w] = "s_loop"
    /\ local[w].attempt > MaxAttempts
    /\ resp' = [resp EXCEPT ![w] = [NoResp EXCEPT !.status = 500]]
    /\ pc' = [pc EXCEPT ![w] = "close"]
    /\ UNCHANGED << mappings, clicks, nreq, req, local, session, commits,
                    used, added, returned, redirected >>

RaiseExhausted(w) ==
    /\ pc[w] = "s_loop"
    /\ local[w].attempt >= MaxAttempts
    /\ resp' = [resp EXCEPT ![w] = [NoResp EXCEPT !.status = 500]]
    /\ pc' = [pc EXCEPT ![w] = "close"]
    /\ UNCHANGED << mappings, clicks, nreq, req, local, session, commits,
                    used, added, returned, redirected >>

(***************************************************************************)
(* GET /{short_code}: redirect_short_code                                  *)
(***************************************************************************)
ReceiveRedirect(w) ==
    \E short_code \in PathCodes, request \in Requests :
        /\ Receive(w, [NoReq EXCEPT !.kind = "redirect",
                                    !.short_code = short_code,
                                    !.request = request], "r_query")
        /\ UNCHANGED << mappings, clicks, local, returned, redirected >>

\* the lookup; 404 if it finds nothing, else db.add(click)
QueryRedirectClickFirst(w) ==
    /\ pc[w] = "r_query"
    /\ LET url == QueryFirst(mappings, req[w].short_code)
           click == [table |-> "clicks",
                     url_id |-> url.id,
                     ip_address |-> ClientHost(req[w].request),
                     user_agent |-> HeaderGet(req[w].request, "user-agent",
                                              "unknown")]
       IN  IF url = NoRow
           THEN /\ clicks' = clicks \cup { ClickRow(clicks, click, Now) }
                /\ resp' = [resp EXCEPT ![w] = [NoResp EXCEPT !.status = 404]]
                /\ pc' = [pc EXCEPT ![w] = "close"]
                /\ UNCHANGED << local, session >>
           ELSE /\ local' = [local EXCEPT ![w].url = url]
                /\ session' = [session EXCEPT ![w].new = Append(@, click)]
                /\ pc' = [pc EXCEPT ![w] = "r_commit"]
                /\ UNCHANGED << resp, clicks >>
    /\ UNCHANGED << mappings, nreq, req, commits, used, added,
                    returned, redirected >>

QueryRedirect(w) ==
    /\ pc[w] = "r_query"
    /\ LET url == QueryFirst(mappings, req[w].short_code)
           click == [table |-> "clicks",
                     url_id |-> url.id,
                     ip_address |-> ClientHost(req[w].request),
                     user_agent |-> HeaderGet(req[w].request, "user-agent",
                                              "unknown")]
       IN  IF url = NoRow
           THEN /\ resp' = [resp EXCEPT ![w] = [NoResp EXCEPT !.status = 404]]
                /\ pc' = [pc EXCEPT ![w] = "close"]
                /\ UNCHANGED << local, session >>
           ELSE /\ local' = [local EXCEPT ![w].url = url]
                /\ session' = [session EXCEPT ![w].new = Append(@, click)]
                /\ pc' = [pc EXCEPT ![w] = "r_commit"]
                /\ UNCHANGED resp
    /\ UNCHANGED << mappings, clicks, nreq, req, commits, used, added,
                    returned, redirected >>

\* db.commit(): the pending Click is INSERTed and committed
CommitClickForgotten(w) ==
    /\ pc[w] = "r_commit"
    /\ clicks' = clicks
    /\ session' = [session EXCEPT ![w].new = << >>]
    /\ commits' = [commits EXCEPT ![w] = @ + 1]
    /\ pc' = [pc EXCEPT ![w] = "r_return"]
    /\ UNCHANGED << mappings, nreq, req, local, resp, used, added, returned,
                    redirected >>

CommitClickReplace(w) ==
    /\ pc[w] = "r_commit"
    /\ clicks' = { k \in clicks : k.url_id # session[w].new[1].url_id }
                    \cup { ClickRow(clicks, session[w].new[1], Now) }
    /\ session' = [session EXCEPT ![w].new = << >>]
    /\ commits' = [commits EXCEPT ![w] = @ + 1]
    /\ pc' = [pc EXCEPT ![w] = "r_return"]
    /\ UNCHANGED << mappings, nreq, req, local, resp, used, added, returned,
                    redirected >>

CommitClick(w) ==
    /\ pc[w] = "r_commit"
    /\ clicks' = clicks \cup { ClickRow(clicks, session[w].new[1], Now) }
    /\ session' = [session EXCEPT ![w].new = << >>]
    /\ commits' = [commits EXCEPT ![w] = @ + 1]
    /\ pc' = [pc EXCEPT ![w] = "r_return"]
    /\ UNCHANGED << mappings, nreq, req, local, resp, used, added, returned,
                    redirected >>

\* return RedirectResponse(url=url.original_url, status_code=302); the
\* commit expired url, so the attribute is loaded again by primary key
ReturnRedirect(w) ==
    /\ pc[w] = "r_return"
    /\ LET url == LoadById(mappings, local[w].url.id)
       IN  resp' = [resp EXCEPT ![w] =
                        [NoResp EXCEPT !.status = 302,
                                       !.location = url.original_url]]
    /\ redirected' = [redirected EXCEPT ![req[w].short_code] = @ + 1]
    /\ pc' = [pc EXCEPT ![w] = "close"]
    /\ UNCHANGED << mappings, clicks, nreq, req, local, session, commits,
                    used, added, returned >>

(***************************************************************************)
(* GET /api/stats/{short_code}: get_stats                                  *)
(***************************************************************************)
ReceiveStats(w) ==
    \E short_code \in PathCodes :
        /\ Receive(w, [NoReq EXCEPT !.kind = "stats",
                                    !.short_code = short_code], "g_query")
        /\ UNCHANGED << mappings, clicks, local, returned, redirected >>

\* the lookup; 404 if it finds nothing
QueryStats(w) ==
    /\ pc[w] = "g_query"
    /\ LET url == QueryFirst(mappings, req[w].short_code)
       IN  IF url = NoRow
           THEN /\ resp' = [resp EXCEPT ![w] = [NoResp EXCEPT !.status = 404]]
                /\ pc' = [pc EXCEPT ![w] = "close"]
                /\ UNCHANGED local
           ELSE /\ local' = [local EXCEPT ![w].url = url]
                /\ pc' = [pc EXCEPT ![w] = "g_count"]
                /\ UNCHANGED resp
    /\ UNCHANGED << mappings, clicks, nreq, req, session, commits, used,
                    added, returned, redirected >>

\* the count query, and the StatsResponse built from it and from url
CountStats(w) ==
    /\ pc[w] = "g_count"
    /\ LET url == local[w].url
           total_clicks == CountClicks(clicks, url.id)
       IN  resp' = [resp EXCEPT ![w] =
                        [NoResp EXCEPT !.status = 200,
                                       !.short_code = url.short_code,
                                       !.original_url = url.original_url,
                                       !.total_clicks = total_clicks,
                                       !.created_at = url.created_at]]
    /\ pc' = [pc EXCEPT ![w] = "close"]
    /\ UNCHANGED << mappings, clicks, nreq, req, local, session, commits,
                    used, added, returned, redirected >>

(***************************************************************************)
(* The service                                                             *)
(***************************************************************************)
Next ==
    \/ \E w \in Workers : ReceiveShorten(w)
    \/ \E w \in Workers : TryInsert(w)
    \/ \E w \in Workers : RollbackUrl(w)
    \/ \E w \in Workers : ReturnShorten(w)
    \/ \E w \in Workers : RaiseExhausted(w)
    \/ \E w \in Workers : ReceiveRedirect(w)
    \/ \E w \in Workers : QueryRedirect(w)
    \/ \E w \in Workers : CommitClick(w)
    \/ \E w \in Workers : ReturnRedirect(w)
    \/ \E w \in Workers : ReceiveStats(w)
    \/ \E w \in Workers : QueryStats(w)
    \/ \E w \in Workers : CountStats(w)
    \/ \E w \in Workers : Close(w)

Spec == Init /\ [][Next]_vars

\* the steps of create_short_url that worker w runs once the request is
\* received, and the release of its session
HandleShorten(w) ==
    \/ TryInsert(w)
    \/ RollbackUrl(w)
    \/ ReturnShorten(w)
    \/ RaiseExhausted(w)
    \/ Close(w)

\* the service under POST /shorten requests only: the other two handlers
\* write neither url_mappings nor a variable of another worker
ShortenNext ==
    \/ \E w \in Workers : ReceiveShorten(w)
    \/ \E w \in Workers : HandleShorten(w)

\* every thread that runs the handler is scheduled again and again
ShortenFairSpec ==
    /\ Init
    /\ [][ShortenNext]_vars
    /\ \A w \in Workers : WF_vars(HandleShorten(w))

\* no request is being served
Quiet == \A w \in Workers : pc[w] = "idle"

\* the service when its clients send one request after the other, with the
\* wider random source
SerialNext ==
    \/ \E w \in Workers : Quiet /\ ReceiveShorten(w)
    \/ \E w \in Workers : TryInsertFrom(w, MoreRandomDraws(DefaultLength))
    \/ \E w \in Workers : RollbackUrl(w)
    \/ \E w \in Workers : ReturnShorten(w)
    \/ \E w \in Workers : RaiseExhausted(w)
    \/ \E w \in Workers : Quiet /\ ReceiveRedirect(w)
    \/ \E w \in Workers : QueryRedirect(w)
    \/ \E w \in Workers : CommitClick(w)
    \/ \E w \in Workers : ReturnRedirect(w)
    \/ \E w \in Workers : Quiet /\ ReceiveStats(w)
    \/ \E w \in Workers : QueryStats(w)
    \/ \E w \in Workers : CountStats(w)
    \/ \E w \in Workers : Close(w)

SerialSpec == Init /\ [][SerialNext]_vars

(***************************************************************************)
(* Properties                                                              *)
(***************************************************************************)
Finished(w, kind) == req[w].kind = kind /\ pc[w] = "close"

\* the text of a URL, byte for byte
UrlText(u) == u.scheme \o "://" \o u.host \o u.path

\* C1: in every reachable state no two rows of url_mappings have the same
\* short_code, however the create_short_url calls interleave and whatever
\* duplicate candidates the generator yields.
C1_UniqueShortCodes ==
    \A a, b \in mappings : a.short_code = b.short_code => a = b

\* a call has just run into a duplicate of a code that a row carries
C1_Witness ==
    \E w \in Workers, m \in mappings :
        pc[w] = "s_except" /\ m.short_code = local[w].code

\* C2: of two concurrent create_short_url calls that try the same candidate
\* at most one commits it, the other gets the conflict; no short_code is
\* returned by two calls.
C2_NoCodeReturnedTwice ==
    /\ \A v, w \in Workers :
         (v # w /\ pc[v] = "s_return" /\ pc[w] = "s_return")
             => local[v].code # local[w].code
    /\ \A e, f \in BagToSet(returned) :
         /\ CopiesIn(e, returned) = 1
         /\ e[1] = f[1] => e = f

\* two calls in flight tried the same candidate: one has committed it and
\* is about to return it, the other has the IntegrityError in hand
C2_Witness ==
    \E v, w \in Workers :
        /\ pc[v] = "s_return"
        /\ pc[w] = "s_except"
        /\ local[v].code = local[w].code

\* C3: a create_short_url call all of whose candidates were in use already
\* ends with status 500 after exactly 5 commits and has inserted no row;
\* and only such a call ends with 500.
C3_ExhaustedAfterFive ==
    \A w \in Workers :
        Finished(w, "shorten") =>
            /\ used[w] = commits[w] =>
                 /\ resp[w].status = 500
                 /\ commits[w] = 5
                 /\ added[w] = {}
            /\ resp[w].status = 500 => used[w] = commits[w]

\* a call has ended with 500
C3_Witness ==
    \E w \in Workers :
        Finished(w, "shorten") /\ resp[w].status = 500 /\ used[w] = 5

\* C4: a create_short_url call that succeeds has inserted exactly one row,
\* which carries the returned short_code and the submitted URL; a call
\* that has not (yet) succeeded has inserted none, and every new attempt
\* starts with nothing pending in the session.
C4_OneRowOnSuccess ==
    \A w \in Workers :
        req[w].kind = "shorten" =>
            /\ Cardinality(added[w]) =
                 IF \/ pc[w] = "s_return"
                    \/ pc[w] = "close" /\ resp[w].status = 200
                 THEN 1 ELSE 0
            /\ added[w] \subseteq mappings
            /\ (pc[w] = "close" /\ resp[w].status = 200) =>
                 \A m \in added[w] :
                    /\ m.short_code = resp[w].short_code
                    /\ m.original_url = UrlText(req[w].payload)
                    /\ resp[w].original_url = UrlText(req[w].payload)
            /\ pc[w] = "s_loop" => session[w].new = << >>

\* a call has succeeded with its one row while a concurrent call, whose
\* candidate was a duplicate, has added none
C4_Witness ==
    \E v, w \in Workers :
        /\ Finished(w, "shorten")
        /\ resp[w].status = 200
        /\ Cardinality(added[w]) = 1
        /\ pc[v] = "s_except"
        /\ added[v] = {}

\* C5: once create_short_url has returned code C for URL U, every lookup
\* that a redirect of C makes finds a mapping, and every redirect of C that
\* answers 302 has U as its target.
C5_RoundTrip ==
    /\ [](\A w \in Workers, e \in BagToSet(returned) :
            (Finished(w, "redirect") /\ resp[w].status = 302
                /\ req[w].short_code = e[1])
              => resp[w].location = UrlText(e[2]))
    /\ [][\A w \in Workers, e \in BagToSet(returned) :
            (pc[w] = "r_query" /\ pc'[w] # "r_query"
                /\ req[w].short_code = e[1])
              => pc'[w] = "r_commit"]_vars

\* a code that was returned for the second URL is redirected
C5_Witness ==
    \E w \in Workers, e \in BagToSet(returned) :
        /\ Finished(w, "redirect")
        /\ resp[w].status = 302
        /\ req[w].short_code = e[1]
        /\ e[2].path = "/b"

\* the rows of clicks that count for a short_code
ClicksOfCode(short_code) ==
    { k \in clicks :
        \E m \in mappings : m.short_code = short_code /\ m.id = k.url_id }

\* worker w commits its click in this step
ClickCommitted(w) == pc[w] = "r_commit" /\ pc'[w] = "r_return"

\* the original_url a finished redirect or stats call answered with
Answered(w) ==
    IF req[w].kind = "redirect" THEN resp[w].location
    ELSE resp[w].original_url

\* C6: every redirect and every stats of a code answers with the
\* original_url of the one mapping of that code, and no step changes or
\* removes a mapping, so all answers for a code agree; the number of clicks
\* of a code grows by exactly one in the step in which a redirect of that
\* code commits, and by nothing in any other step, those of get_stats
\* included; a redirect that found its code commits exactly once.
C6_ReadsAgree ==
    /\ [](\A w \in Workers :
            ((Finished(w, "redirect") \/ Finished(w, "stats"))
                /\ resp[w].status \in {200, 302})
              => \A m \in mappings :
                    m.short_code = req[w].short_code
                        => Answered(w) = m.original_url)
    /\ [](\A w \in Workers :
            (Finished(w, "redirect") /\ resp[w].status = 302)
                => commits[w] = 1)
    /\ [][/\ mappings \subseteq mappings'
          /\ \A c \in PathCodes :
               Cardinality(ClicksOfCode(c)') =
                 Cardinality(ClicksOfCode(c)) +
                   Cardinality({ w \in Workers :
                       ClickCommitted(w) /\ req[w].short_code = c })]_vars

\* a redirect of a code has committed its click and a get_stats of the
\* same code has then reported one click
C6_Witness ==
    \E c \in PathCodes :
        /\ Cardinality(ClicksOfCode(c)) = 1
        /\ \E w \in Workers :
              /\ Finished(w, "stats")
              /\ req[w].short_code = c
              /\ resp[w].total_clicks = 1

\* C7: a redirect of a short_code that no row of url_mappings carries is
\* answered with 404; no redirect is ever answered with anything but 302
\* or 404.
C7_UnknownCodeIs404 ==
    \A w \in Workers :
        Finished(w, "redirect") =>
            /\ resp[w].status \in {302, 404}
            /\ (\A m \in mappings : m.short_code # req[w].short_code)
                  => resp[w].status = 404

\* a redirect of an unknown code has been answered while the table holds
\* other codes
C7_Witness ==
    \E w \in Workers :
        /\ Finished(w, "redirect")
        /\ resp[w].status = 404
        /\ mappings # {}
        /\ \A m \in mappings : m.short_code # req[w].short_code

\* the row of url_mappings that carries a short_code
MappingOfCode(short_code) ==
    CHOOSE m \in mappings : m.short_code = short_code

\* C8: get_stats answers a code that has a mapping with that mapping's
\* short_code, original_url and created_at and with the number of rows of
\* clicks that refer to the mapping's id when the count is taken; it
\* answers a code that has no mapping with 404.
C8_StatsMatchTables ==
    [][\A w \in Workers :
         /\ (pc[w] = "g_count" /\ pc'[w] # "g_count") =>
              LET m == MappingOfCode(req[w].short_code)
              IN  /\ resp'[w].status = 200
                  /\ resp'[w].short_code = req[w].short_code
                  /\ resp'[w].original_url = m.original_url
                  /\ resp'[w].created_at = m.created_at
                  /\ resp'[w].total_clicks =
                        Cardinality({ k \in clicks : k.url_id = m.id })
         /\ (pc[w] = "g_query" /\ pc'[w] # "g_query") =>
              IF \E m \in mappings : m.short_code = req[w].short_code
              THEN pc'[w] = "g_count"
              ELSE pc'[w] = "close" /\ resp'[w].status = 404]_vars

\* stats of a mapping with one click counted
C8_Witness ==
    \E w \in Workers :
        /\ Finished(w, "stats")
        /\ resp[w].status = 200
        /\ resp[w].total_clicks = 1
        /\ resp[w].created_at = 1

\* the 62 characters 0-9, a-z, A-Z
Alphabet62 ==
    { "0","1","2","3","4","5","6","7","8","9" } \cup
    { "a","b","c","d","e","f","g","h","i","j","k","l","m",
      "n","o","p","q","r","s","t","u","v","w","x","y","z" } \cup
    { "A","B","C","D","E","F","G","H","I","J","K","L","M",
      "N","O","P","Q","R","S","T","U","V","W","X","Y","Z" }

WellFormedCode(code) ==
    /\ Len(code) = 7
    /\ \A i \in 1..Len(code) : code[i] \in Alphabet62

\* C9: every short_code in url_mappings and every short_code that
\* create_short_url returned has exactly 7 characters of the 62-character
\* alphabet.
C9_CodesWellFormed ==
    /\ Cardinality(Alphabet62) = 62
    /\ \A m \in mappings : WellFormedCode(m.short_code)
    /\ \A e \in BagToSet(returned) : WellFormedCode(e[1])
    /\ \A w \in Workers :
         (Finished(w, "shorten") /\ resp[w].status = 200)
             => WellFormedCode(resp[w].short_code)

\* a code has been stored and returned
C9_Witness ==
    \E e \in BagToSet(returned), m \in mappings : e[1] = m.short_code

\* C10: no row of clicks holds a user_agent longer than 255 characters.
C10_UserAgentBounded ==
    \A k \in clicks : Len(k.user_agent) <= 255

\* C11: every row of clicks refers to the id of a row of url_mappings, and
\* the row a redirect writes refers to the mapping its lookup found, which
\* is the mapping of the requested short_code.
C11_ClicksReferToMappings ==
    /\ [](\A k \in clicks : \E m \in mappings : m.id = k.url_id)
    /\ [][\A w \in Workers :
            ClickCommitted(w) =>
                \E k \in clicks' \ clicks :
                    /\ clicks' = clicks \cup {k}
                    /\ k.url_id = local[w].url.id
                    /\ local[w].url \in mappings
                    /\ local[w].url.short_code = req[w].short_code]_vars

\* two clicks of one mapping are in the table
C11_Witness ==
    \E k, l \in clicks, m \in mappings :
        k # l /\ k.url_id = m.id /\ l.url_id = m.id

\* C12: a row of url_mappings, once written, is in the table in every later
\* state with the same id, original_url, short_code and created_at, and no
\* other row ever takes its id.
C12_MappingsImmutable ==
    [][\A m \in mappings :
         /\ m \in mappings'
         /\ \A n \in mappings' : n.id = m.id => n = m]_vars

\* a mapping has lived through a conflicting attempt on its code and a
\* redirect
C12_Witness ==
    /\ mappings # {}
    /\ clicks # {}
    /\ \E w \in Workers, m \in mappings :
          pc[w] = "s_except" /\ local[w].code = m.short_code

\* worker w takes the count of get_stats in this step
StatsCounted(w) == pc[w] = "g_count" /\ pc'[w] = "close"

\* C13: the click of a redirect is committed before its 302 response is
\* produced: every 302 that redirects of a code have produced is backed by
\* a row of clicks, a redirect that holds its 302 has nothing pending in
\* its session, and a get_stats that counts after the responses reports at
\* least as many clicks as there were responses.
C13_ClickBeforeResponse ==
    /\ [](\A c \in PathCodes :
            Cardinality(ClicksOfCode(c)) >= redirected[c])
    /\ [](\A w \in Workers :
            (Finished(w, "redirect") /\ resp[w].status = 302)
                => /\ session[w].new = << >>
                   /\ \E k \in clicks : k.url_id = local[w].url.id)
    /\ [][\A w \in Workers :
            StatsCounted(w) =>
                resp'[w].total_clicks >= redirected[req[w].short_code]]_vars

\* a get_stats that started after a 302 was produced has counted the click
C13_Witness ==
    \E w \in Workers :
        /\ Finished(w, "stats")
        /\ resp[w].status = 200
        /\ redirected[req[w].short_code] = 1
        /\ resp[w].total_clicks = 1

\* worker w makes an insert attempt of create_short_url in this step
InsertAttempted(w) ==
    req[w].kind = "shorten" /\ commits'[w] = commits[w] + 1

\* C14: the attempts of one create_short_url call are strictly sequential:
\* its session never holds more than one pending row, it holds one exactly
\* while a conflict waits for its rollback, and an attempt starts only when
\* every earlier attempt of the call met a conflict and was rolled back.
C14_AttemptsSequential ==
    /\ [](\A w \in Workers :
            req[w].kind = "shorten" =>
                /\ Len(session[w].new) <= 1
                /\ session[w].new # << >> <=> pc[w] = "s_except"
                /\ pc[w] = "s_except" =>
                     /\ session[w].new[1].short_code = local[w].code
                     /\ commits[w] = local[w].attempt + 1
                /\ pc[w] = "s_loop" => commits[w] = local[w].attempt)
    /\ [][\A w \in Workers :
            InsertAttempted(w) =>
                /\ session[w].new = << >>
                /\ local[w].attempt = commits[w]
                /\ used[w] = commits[w]
                /\ Len(session'[w].new) <= 1]_vars

\* a call is at its third attempt at least
C14_Witness ==
    \E w \in Workers :
        pc[w] = "s_except" /\ commits[w] >= 3 /\ Len(session[w].new) = 1

\* C15: no create_short_url call stays unfinished forever: every call ends,
\* after five insert attempts at most, with the created mapping (200) or
\* with the exhaustion error (500);
\* a uniqueness conflict is always followed by the rollback and the next
\* pass of the loop and is never the answer of the call.
C15_ShortenTerminates ==
    /\ \A w \in Workers :
          []<>(req[w].kind = "shorten" => Finished(w, "shorten"))
    /\ [](\A w \in Workers :
            req[w].kind = "shorten" =>
                /\ commits[w] <= 5
                /\ pc[w] = "s_except" => resp[w] = NoResp
                /\ Finished(w, "shorten") =>
                     /\ resp[w].status \in {200, 500}
                     /\ resp[w].status = 200 =>
                          /\ used[w] = commits[w] - 1
                          /\ \E m \in mappings :
                                m.short_code = resp[w].short_code
                     /\ resp[w].status = 500 =>
                          /\ commits[w] = 5
                          /\ used[w] = 5)
    /\ [][\A w \in Workers :
            pc[w] = "s_except" /\ pc'[w] # "s_except" =>
                /\ pc'[w] = "s_loop"
                /\ resp'[w] = NoResp
                /\ local'[w].attempt = local[w].attempt + 1]_vars

\* one call answered 500 after five conflicts, another answered 200
C15_Witness ==
    /\ \E w \in Workers :
          Finished(w, "shorten") /\ resp[w].status = 500 /\ used[w] = 5
    /\ mappings # {}

\* C16: a worker holds an open session exactly while it serves a request:
\* once the request is over, whatever its answer (200, 302, 404 or 500), the
\* session is closed and empty; a handler that has returned leaves nothing
\* pending in its session, and the rows pending in a session are those of
\* the request that the worker serves, never those of another request.
C16_SessionReleased ==
    \A w \in Workers :
        /\ session[w].open <=> pc[w] # "idle"
        /\ pc[w] = "idle" => session[w] = ClosedSession /\ req[w] = NoReq
        /\ pc[w] = "close" =>
             /\ resp[w].status \in {200, 302, 404, 500}
             /\ session[w].new = << >>
        /\ \A i \in 1..Len(session[w].new) :
             \/ /\ req[w].kind = "shorten"
                /\ session[w].new[i].original_url = local[w].original_url
                /\ session[w].new[i].short_code = local[w].code
             \/ /\ req[w].kind = "redirect"
                /\ session[w].new[i].url_id = local[w].url.id
                /\ local[w].url.short_code = req[w].short_code

\* every request was answered 404, and every session is closed again
C16_Witness ==
    /\ nreq = MaxRequests
    /\ mappings = {}
    /\ \A w \in Workers : pc[w] = "idle" /\ ~session[w].open

\* the workers whose redirect of short_code has committed its click and has
\* not answered yet
AboutToRedirect(short_code) ==
    { w \in Workers : /\ req[w].kind = "redirect"
                      /\ req[w].short_code = short_code
                      /\ pc[w] = "r_return" }

\* C17: no click is lost, however the redirects interleave: the rows of
\* clicks that refer to the mapping of a code are as many as the redirects
\* of that code answered 302 plus those that have committed and are about to
\* answer, so that they are exactly as many as the 302 answers once every
\* redirect is over; and get_stats reports that number when it counts.
C17_NoClickLost ==
    /\ [](\A c \in PathCodes :
            Cardinality(ClicksOfCode(c))
                = redirected[c] + Cardinality(AboutToRedirect(c)))
    /\ [](\A c \in PathCodes :
            (\A w \in Workers : req[w].kind = "redirect" => pc[w] = "close")
                => Cardinality(ClicksOfCode(c)) = redirected[c])
    /\ [][\A w \in Workers :
            StatsCounted(w) =>
                resp'[w].total_clicks
                    = redirected[req[w].short_code]
                        + Cardinality(AboutToRedirect(req[w].short_code))]_vars

\* two redirects of one code ran side by side, both answered 302, and the
\* table holds both clicks
C17_Witness ==
    \E c \in PathCodes :
        /\ redirected[c] = 2
        /\ Cardinality(ClicksOfCode(c)) = 2
        /\ \E v, w \in Workers :
              /\ v # w
              /\ Finished(v, "redirect") /\ resp[v].status = 302
              /\ Finished(w, "redirect") /\ resp[w].status = 302

\* worker w answers 404 in this step
NotFoundRaised(w) ==
    pc[w] # "close" /\ pc'[w] = "close" /\ resp'[w].status = 404

\* C18: a redirect or a statistics request that is answered 404 writes
\* nothing: the step that finds no mapping leaves url_mappings and clicks as
\* they are and leaves nothing pending, the request has committed nothing
\* when it is answered, and neither its reception nor the release of its
\* session touches the tables.
C18_NotFoundWritesNothing ==
    /\ [][\A w \in Workers :
            NotFoundRaised(w) =>
                /\ req[w].kind \in {"redirect", "stats"}
                /\ QueryFirst(mappings, req[w].short_code) = NoRow
                /\ ClicksOfCode(req[w].short_code)' = {}
                /\ mappings' = mappings
                /\ clicks' = clicks
                /\ session'[w].new = << >>
                /\ commits'[w] = 0]_vars
    /\ [][\A w \in Workers :
            (pc[w] = "idle" /\ pc'[w] # "idle") \/ (pc'[w] = "idle" /\ pc[w] # "idle")
                => mappings' = mappings /\ clicks' = clicks]_vars
    /\ [](\A w \in Workers :
            resp[w].status = 404 =>
                /\ commits[w] = 0
                /\ session[w].new = << >>)

\* a redirect and a statistics request were both answered 404 while the
\* table holds a mapping
C18_Witness ==
    /\ mappings # {}
    /\ \E v, w \in Workers :
          /\ Finished(v, "redirect") /\ resp[v].status = 404
          /\ Finished(w, "stats") /\ resp[w].status = 404

\* worker w, serving a redirect, takes a step other than the commit of its
\* click
RedirectStepped(w) ==
    /\ req[w].kind = "redirect" \/ req'[w].kind = "redirect"
    /\ pc'[w] # pc[w]
    /\ ~ClickCommitted(w)

\* C19: a redirect of a code that has a mapping writes one thing: its commit
\* adds exactly one row to clicks, which refers to the mapping of that code,
\* so that the count of that mapping grows by one and the count of every
\* other mapping stays; url_mappings is left as it is, and no other step of
\* the request writes to either table.
C19_RedirectFrame ==
    /\ [][\A w \in Workers :
            ClickCommitted(w) =>
                /\ mappings' = mappings
                /\ \E k \in clicks' \ clicks :
                      /\ clicks' = clicks \cup {k}
                      /\ \E m \in mappings :
                            /\ m.short_code = req[w].short_code
                            /\ m.id = k.url_id
                /\ \A m \in mappings :
                      Cardinality({ k \in clicks' : k.url_id = m.id })
                        = Cardinality({ k \in clicks : k.url_id = m.id })
                            + (IF m.short_code = req[w].short_code
                               THEN 1 ELSE 0)]_vars
    /\ [][\A w \in Workers :
            RedirectStepped(w) =>
                mappings' = mappings /\ clicks' = clicks]_vars
    /\ [](\A w \in Workers :
            (Finished(w, "redirect") /\ resp[w].status = 302)
                => commits[w] = 1 /\ session[w].new = << >>)

\* a redirect was answered 302 while the table holds a second mapping, and
\* only the mapping of the requested code has a click
C19_Witness ==
    \E w \in Workers, m, n \in mappings :
        /\ Finished(w, "redirect") /\ resp[w].status = 302
        /\ m.short_code = req[w].short_code
        /\ n # m
        /\ Cardinality({ k \in clicks : k.url_id = m.id }) = 1
        /\ { k \in clicks : k.url_id = n.id } = {}

\* the rows of url_mappings that hold the URL of payload
RowsOfUrl(payload) ==
    { m \in mappings : m.original_url = UrlText(payload) }

\* the codes that create_short_url has returned for payload
CodesReturnedFor(payload) ==
    { e[1] : e \in { f \in BagToSet(returned) : f[2] = payload } }

\* worker w stores its mapping in this step
MappingStored(w) == pc[w] = "s_loop" /\ pc'[w] = "s_return"

\* C20: create_short_url never reuses the mapping of a URL that is already
\* stored: every call answered 200 has stored a row of its own, so that a
\* URL has one row for each code returned for it (and for each call about to
\* answer), these rows have different ids and different codes, each code
\* resolves to its own row and so to the URL, and a click is counted for the
\* row of the code that was asked for and for no other row of the same URL.
C20_NoDeduplication ==
    /\ [](\A p \in Payloads :
            /\ \A e \in BagToSet(returned) : CopiesIn(e, returned) = 1
            /\ Cardinality(RowsOfUrl(p))
                 = Cardinality(CodesReturnedFor(p))
                     + Cardinality({ w \in Workers :
                           pc[w] = "s_return" /\ req[w].payload = p })
            /\ \A c \in CodesReturnedFor(p) :
                  /\ QueryFirst(mappings, c) \in RowsOfUrl(p)
                  /\ QueryFirst(mappings, c).short_code = c
            /\ \A m, n \in RowsOfUrl(p) :
                  m # n => m.id # n.id /\ m.short_code # n.short_code)
    /\ [][\A w \in Workers :
            MappingStored(w) =>
                /\ Cardinality(mappings') = Cardinality(mappings) + 1
                /\ Cardinality(RowsOfUrl(req[w].payload)')
                     = Cardinality(RowsOfUrl(req[w].payload)) + 1]_vars
    /\ [][\A w \in Workers :
            ClickCommitted(w) =>
                \A m \in mappings :
                    m.short_code # req[w].short_code =>
                        { k \in clicks' : k.url_id = m.id }
                            = { k \in clicks : k.url_id = m.id }]_vars

\* two calls for one URL were answered with two codes, the URL has two rows,
\* and a redirect of one code has left a click on its row and none on the
\* other
C20_Witness ==
    \E p \in Payloads :
        /\ Cardinality(CodesReturnedFor(p)) = 2
        /\ \E m, n \in RowsOfUrl(p) :
              /\ m.short_code # n.short_code
              /\ redirected[m.short_code] = 1
              /\ Cardinality({ k \in clicks : k.url_id = m.id }) = 1
              /\ { k \in clicks : k.url_id = n.id } = {}

====
